---- MODULE Spec2Model ----
(***************************************************************************)
(* A model of the schedule bot of src/bot.py: the in-memory BotData (user  *)
(* directory and subscription set), the two stored schedule snapshots and  *)
(* the handlers that change them, with notify_users (change detection and  *)
(* notification targeting) translated statement by statement.              *)
(*                                                                         *)
(* Representation.                                                         *)
(*  - A Python str that may hold '-' is the sequence of its '-'-separated  *)
(*    parts: "201-206" is <<"201", "206">>, "T1" is <<"T1">>.  str.split   *)
(*    on '-' therefore yields the elements of the sequence.                *)
(*  - A spreadsheet text cell is [lead, s, trail]: the text s with lead    *)
(*    blanks before it and trail blanks after it; str.strip() drops both.  *)
(*  - A DataFrame is the bag of its rows: no modelled statement reads the  *)
(*    order of the rows.                                                   *)
(*  - Every handler is one atomic action; sent and call record what the    *)
(*    handler that ran last sent and computed.                             *)
(***************************************************************************)
EXTENDS Integers, Sequences, FiniteSets, Bags, TLC

VARIABLES
    users,              \* bot_data.users: user id -> UserData
    subscribed_users,   \* bot_data.subscribed_users
    db_users,           \* the users table (and users.json) of the store
    original_schedule,  \* table original_schedule, a bag of rows
    changes_schedule,   \* table changes_schedule, a bag of rows
    sent,               \* notifications sent by the last handler, in order
    call,               \* what the last notify_users call computed
    upload,             \* the document handle_file was last given (SpecUpload)
    ws,                 \* the worksheet given to the extractor (SpecExtract)
    schedule_data,      \* what process_working_schedule made of ws
    group_list,         \* the labels given to get_union_name (SpecResolve)
    union_name,         \* what get_union_name made of group_list
    match,              \* a cell text, a name and contains_teacher_name of them
    original_file,      \* bot_data.original_file
    last_file,          \* bot_data.last_file
    reply,              \* what handle_message last answered, and to what
    job,                \* a notify_users call in progress, between its awaits
    uploads             \* the handle_file calls in progress, one per slot

vars == <<users, subscribed_users, db_users, original_schedule,
          changes_schedule, sent, call, upload, ws, schedule_data,
          group_list, union_name, match, original_file, last_file, reply,
          job, uploads>>

\* the state of the bot, of the extractor and of the resolver
botVars == <<users, subscribed_users, db_users, original_schedule,
             changes_schedule, sent, call, upload>>
sheetVars == <<ws, schedule_data>>
resolveVars == <<group_list, union_name>>
fileVars == <<original_file, last_file>>
jobVars == <<job, uploads>>
auxVars == <<match, fileVars, reply, jobVars>>

----------------------------------------------------------------------------
(* Bounds of the model *)

\* most rows of a snapshot in the notification specification SpecNotify
MaxRows == 2

\* most labels of a list given to get_union_name in SpecResolve
MaxLabels == 3
MaxChars == 3

\* the user ids that exist, and those that send updates in Spec
UserIds == {1, 2, 3}
Senders == {2, 3}

----------------------------------------------------------------------------
(* Configuration *)

\* os.getenv("ALLOWED_USERS"): the privileged (admin) user ids
ALLOWED_USERS == {1, 2}

None == "None"
NoText == << >>

Teacher == "Oqitiwshi"
Student == "Student"

\* the dict literal, in its insertion order: <<union name, raw labels>>
GROUP_UNIONS_ITEMS ==
    << << <<"101">>, <<"101">> >>, << <<"102">>, <<"102">> >>,
       << <<"103">>, <<"103">> >>, << <<"104">>, <<"104">> >>,
       << <<"105">>, <<"105">> >>, << <<"106">>, <<"106">> >>,
       << <<"107">>, <<"107">> >>, << <<"108">>, <<"108">> >>,
       << <<"109">>, <<"109">> >>, << <<"110">>, <<"110">> >>,
       << <<"111">>, <<"111">> >>, << <<"112">>, <<"112">> >>,
       << <<"113">>, <<"113">> >>, << <<"201">>, <<"201">> >>,
       << <<"202">>, <<"202">> >>, << <<"203">>, <<"203">> >>,
       << <<"204">>, <<"204">> >>, << <<"205">>, <<"205">> >>,
       << <<"206">>, <<"206">> >>, << <<"207">>, <<"207">> >>,
       << <<"208">>, <<"208">> >>, << <<"209">>, <<"209">> >>,
       << <<"210">>, <<"210">> >>, << <<"301">>, <<"301">> >>,
       << <<"303">>, <<"303">> >>, << <<"304">>, <<"304">> >>,
       << <<"305">>, <<"305">> >>, << <<"4G">>, <<"4G">> >>,
       << <<"4D">>, <<"4D">> >>, << <<"4E">>, <<"4E">> >>,
       << <<"4J">>, <<"4J">> >>, << <<"4Z">>, <<"4Z">> >>,
       << <<"4I">>, <<"4I">> >>, << <<"4K">>, <<"4K">> >>,
       << <<"101", "102">>, <<"101", "102">> >>,
       << <<"103", "104">>, <<"103", "104">> >>,
       << <<"105", "106">>, <<"105", "106">> >>,
       << <<"107", "108">>, <<"107", "108">> >>,
       << <<"109", "110">>, <<"109", "110">> >>,
       << <<"201", "202">>, <<"201", "202">> >>,
       << <<"201", "206">>, <<"201", "202", "203", "204", "205", "206">> >>,
       << <<"201", "202", "203", "204", "205", "206">>,
          <<"201", "202", "203", "204", "205", "206">> >>,
       << <<"207", "208">>, <<"207", "208">> >>,
       << <<"207", "208", "209">>, <<"207", "208", "209">> >>,
       << <<"303", "304">>, <<"303", "304">> >>,
       << <<"4G", "4J">>, <<"4G", "4J">> >>,
       << <<"4Z", "4I">>, <<"4Z", "4I">> >>,
       << <<"4G", "4D", "4E", "4J">>, <<"4G", "4D", "4E", "4J">> >>,
       << <<"101", "102", "103", "104", "112">>,
          <<"101", "102", "103", "104", "112">> >>,
       << <<"105", "106", "107", "108", "109", "110", "113">>,
          <<"105", "106", "107", "108", "109", "110", "113">> >> >>

GroupUnionKeys == {GROUP_UNIONS_ITEMS[i][1] : i \in DOMAIN GROUP_UNIONS_ITEMS}

\* GROUP_UNIONS[name]: the list of raw labels of a union name
GROUP_UNIONS ==
    [k \in GroupUnionKeys |->
        GROUP_UNIONS_ITEMS[CHOOSE i \in DOMAIN GROUP_UNIONS_ITEMS :
                                GROUP_UNIONS_ITEMS[i][1] = k][2]]

Range(s) == {s[i] : i \in DOMAIN s}

----------------------------------------------------------------------------
(* UserData and BotData *)

\* UserData.__init__
UserData == [role |-> None, teacher_name |-> NoText, group |-> NoText,
             notifications |-> TRUE]

\* the set comprehension that builds subscribed_users from a directory
SubscribedOf(dir) == {uid \in DOMAIN dir : dir[uid].notifications}

\* d[k] = v of a Python dict
Put(d, k, v) == [x \in DOMAIN d \cup {k} |-> IF x = k THEN v ELSE d[x]]

----------------------------------------------------------------------------
(* Rows and snapshots *)

Cell(s) == [lead |-> 0, s |-> s, trail |-> 0]
Padded(s) == [lead |-> 0, s |-> s, trail |-> 1]

\* str.strip() of a cell
StrStrip(c) == c.s

\* old_df["Oqitiwshi"].astype(str).str.strip(), and the same for "Topar"
StripColumns(row) == [row EXCEPT !.Oqitiwshi = StrStrip(@), !.Topar = StrStrip(@)]

Row(day, pair, group, subject, teacher, room) ==
    [Kun |-> day, Jupliq |-> pair, Topar |-> group, Pan |-> subject,
     Oqitiwshi |-> teacher, Kabinet |-> room]

\* the rows uploaded files are made of
RowA == Row("DUYSEMBI", 1, Cell(<<"201", "202">>), "Math", Cell(<<"T1">>), "204")
RowB == Row("DUYSEMBI", 1, Cell(<<"201", "206">>), "Fizika", Cell(<<"T2">>), "JOQ")
RowAPadded == [RowA EXCEPT !.Oqitiwshi = Padded(<<"T1">>)]

FilePool == {RowA, RowB}
RecordPool == {RowA, RowAPadded, RowB}

\* the frames uploaded in the lifecycle specification Spec: a sheet with
\* no row, and one-row sheets
FileFrames == {EmptyBag} \cup {SetToBag({row}) : row \in FilePool}

RECURSIVE SumOver(_, _)
SumOver(f, S) == IF S = {} THEN 0
                 ELSE LET x == CHOOSE y \in S : TRUE IN f[x] + SumOver(f, S \ {x})

\* every DataFrame of at most n rows drawn from pool
Frames(pool, n) ==
    LET counts == {f \in [pool -> 0..n] : SumOver(f, pool) <= n}
    IN {[r \in {x \in pool : f[x] > 0} |-> f[r]] : f \in counts}

\* df.empty
Empty(df) == BagToSet(df) = {}

----------------------------------------------------------------------------
(* notify_users *)

NoCall == [mode |-> "none", uploader_id |-> 0, compared |-> FALSE,
           changes |-> {}, affected_teachers |-> {}, affected_groups |-> {},
           before |-> EmptyBag]

Message(uid, text) == [to |-> uid, text |-> text]

\* the order in which a dict or set is iterated: its members in the order
\* they have in order, a permutation of the registered user ids (the
\* insertion order of the dict, any order for the set)
Iterate(collection, order) == SelectSeq(order, LAMBDA uid : uid \in collection)

Orders(ids) == {o \in [1..Cardinality(ids) -> ids] :
                   \A i, j \in DOMAIN o : o[i] = o[j] => i = j}

\* the sends of the is_original branch: the admin uploader first, then every
\* member of subscribed_users but the uploader
NewScheduleLoop(subscribed, uploader_id, order) ==
    SelectSeq(Iterate(subscribed, order), LAMBDA uid : uid # uploader_id)

NewScheduleSends(subscribed, uploader_id, order) ==
    LET first == IF uploader_id \in ALLOWED_USERS THEN <<uploader_id>> ELSE << >>
    IN first \o NewScheduleLoop(subscribed, uploader_id, order)

\* mutant: returns only when both frames are empty
CannotCompare_BothEmpty(old_df, new_df) == Empty(old_df) /\ Empty(new_df)

\* if old_df.empty or new_df.empty: return
CannotCompare(old_df, new_df) == Empty(old_df) \/ Empty(new_df)

\* mutant: drop_duplicates() with the default keep='first'
DropDuplicates_KeepFirst(df) == BagToSet(df)

\* pd.concat([old_df, new_df]).drop_duplicates(keep=False): the rows that
\* occur exactly once in the concatenation
DropDuplicates(df) == {r \in BagToSet(df) : CopiesIn(r, df) = 1}

\* mutant: the old frame is left out of the concatenation
Changes_NewOnly(old_df, new_df) == DropDuplicates(new_df)

Changes(old_df, new_df) == DropDuplicates(old_df (+) new_df)

\* parse_groups(group_str): group_str.split('-')
parse_groups(group_str) == group_str

AffectedTeachers(changes) == {r.Oqitiwshi : r \in changes}

AffectedGroups(changes) == UNION {Range(parse_groups(r.Topar)) : r \in changes}

\* mutant: admins with notifications off are skipped as well
Skipped_AdminsToo(uid, user_data) == ~user_data.notifications

\* if not user_data.notifications and user_id not in ALLOWED_USERS: continue
Skipped(uid, user_data) == ~user_data.notifications /\ uid \notin ALLOWED_USERS

TeacherMatch(user_data, affected_teachers) ==
    user_data.role = Teacher /\ user_data.teacher_name \in affected_teachers

StudentMatch(user_data, affected_groups) ==
    /\ user_data.role = Student
    /\ user_data.group \in DOMAIN GROUP_UNIONS
    /\ \E g \in Range(GROUP_UNIONS[user_data.group]) : g \in affected_groups

\* the loop over bot_data.users.items(): <<sends, notified_users>>
RECURSIVE ChangeLoop(_, _, _, _, _, _)
ChangeLoop(dir, items, affected_teachers, affected_groups, out, notified_users) ==
    IF items = << >> THEN <<out, notified_users>>
    ELSE LET uid == Head(items)
             user_data == dir[uid]
             rest == Tail(items)
         IN IF Skipped(uid, user_data) \/ uid \in notified_users
            THEN ChangeLoop(dir, rest, affected_teachers, affected_groups,
                            out, notified_users)
            ELSE IF \/ TeacherMatch(user_data, affected_teachers)
                    \/ StudentMatch(user_data, affected_groups)
            THEN ChangeLoop(dir, rest, affected_teachers, affected_groups,
                            Append(out, uid), notified_users \cup {uid})
            ELSE ChangeLoop(dir, rest, affected_teachers, affected_groups,
                            out, notified_users)

\* mutant: the uploader is sent the message whether notified already or not
UploaderLast_Unchecked(uploader_id, notified_users) ==
    IF uploader_id \in ALLOWED_USERS THEN <<uploader_id>> ELSE << >>

\* mutant: the test of notified_users is inverted
UploaderLast_Inverted(uploader_id, notified_users) ==
    IF uploader_id \in ALLOWED_USERS /\ uploader_id \in notified_users
    THEN <<uploader_id>> ELSE << >>

\* if uploader_id in ALLOWED_USERS and uploader_id not in notified_users
UploaderLast(uploader_id, notified_users) ==
    IF uploader_id \in ALLOWED_USERS /\ uploader_id \notin notified_users
    THEN <<uploader_id>> ELSE << >>

ChangeSends(dir, old_df, new_df, uploader_id, order) ==
    LET changes == Changes(old_df, new_df)
        loop == ChangeLoop(dir, Iterate(DOMAIN dir, order),
                           AffectedTeachers(changes), AffectedGroups(changes),
                           << >>, {})
    IN IF CannotCompare(old_df, new_df) \/ changes = {} THEN << >>
       ELSE loop[1] \o UploaderLast(uploader_id, loop[2])

\* notify_users(context, is_original, uploader_id) on the state (dir,
\* subscribed, original, changes): the messages it sends and what it computed
\* (before: the rows that a changes upload replaced, kept for the record)
notify_users(dir, subscribed, original, changes, is_original, uploader_id, order, before) ==
    \* old_df, new_df: get_from_db of the two tables, with both text columns
    \* stripped
    LET old_df == BagOfAll(StripColumns, original)
        new_df == BagOfAll(StripColumns, changes)
        compared == ~is_original /\ ~CannotCompare(old_df, new_df)
        diff == IF compared THEN Changes(old_df, new_df) ELSE {}
        uids == IF is_original
                THEN NewScheduleSends(subscribed, uploader_id, order)
                ELSE ChangeSends(dir, old_df, new_df, uploader_id, order)
    IN [sent |-> [i \in DOMAIN uids |->
                     Message(uids[i], IF is_original THEN "new" ELSE "change")],
        call |-> [mode |-> IF is_original THEN "original" ELSE "change",
                  uploader_id |-> uploader_id,
                  compared |-> compared,
                  changes |-> diff,
                  affected_teachers |-> AffectedTeachers(diff),
                  affected_groups |-> AffectedGroups(diff),
                  before |-> before]]

----------------------------------------------------------------------------
(* get_union_name *)

\* the raw labels lists are made of in SpecResolve, in the order sorted()
\* gives them (str comparison, code point by code point)
LabelOrder == <<"101", "102", "4G", "4J", "999">>

Rank(label) == CHOOSE i \in DOMAIN LabelOrder : LabelOrder[i] = label

\* the str "": no '-' in it, one empty part
EmptyStr == <<"">>

\* mutant: the labels are joined in the order they come in
Sorted_AsGiven(labels) == labels

\* sorted(group_list)
Sorted(labels) == SortSeq(labels, LAMBDA a, b : Rank(a) < Rank(b))

\* "-".join(labels), for labels that hold no '-'
Join(labels) == IF labels = << >> THEN EmptyStr ELSE labels

\* mutant: an entry matches when the list holds every label of it
UnionMatches_Subset(groups, group_set) == Range(groups) \subseteq group_set

\* set(groups) == group_set
UnionMatches(groups, group_set) == Range(groups) = group_set

\* get_union_name(group_list, group_unions): the name of the first entry of
\* GROUP_UNIONS.items() with the set of labels of the list, else the sorted
\* labels joined
get_union_name(labels, group_unions) ==
    LET group_set == Range(labels)
        hits == {i \in DOMAIN GROUP_UNIONS_ITEMS :
                    UnionMatches(GROUP_UNIONS_ITEMS[i][2], group_set)}
        first == CHOOSE i \in hits : \A j \in hits : i <= j
    IN IF labels = << >> THEN EmptyStr
       ELSE IF hits # {} THEN GROUP_UNIONS_ITEMS[first][1]
       ELSE Join(Sorted(labels))

----------------------------------------------------------------------------
(* The working table and its extractor *)

(***************************************************************************)
(* A worksheet is [cells, merged, max_column]: cells maps <<row, column>>  *)
(* to the value of the cell, merged is the set of merged ranges [min_row,  *)
(* max_row, min_col, max_col].  A cell value is None, a str or an int:     *)
(* [kind, s] with s the text (the decimal digits of an int).  Only the     *)
(* top-left cell of a merged range holds a value.  cell.is_merged and      *)
(* cell.merge_area are read as the extractor uses them: whether the cell   *)
(* lies in a merged range, and that range, whose [0][0] is its top-left    *)
(* cell and whose width is its number of columns.                          *)
(***************************************************************************)

NoValue == [kind |-> "none", s |-> ""]
Str(s) == [kind |-> "str", s |-> s]
Num(s) == [kind |-> "int", s |-> s]

\* bool(value)
Truthy(v) == \/ v.kind = "str" /\ v.s # ""
             \/ v.kind = "int" /\ v.s # "0"

\* value or default
Or(v, default) == IF Truthy(v) THEN v ELSE Str(default)

\* the layout of the sheet, scaled down: two teachers, a first course of two
\* group columns (each followed by its room column), a second course of one,
\* one day of two slot rows
TEACHER_NAMES == <<"Ta A", "Tb B">>
GROUP_COLUMNS_FIRST_COURSE == <<4, 6>>
GROUP_COLUMNS_SECOND_COURSE == <<33>>
DAY_RANGES == << <<5, 6>> >>
DAY_NAMES == <<"DUYSEMBI">>
TimeColumnFirstCourse == 3
TimeColumnSecondCourse == 32
LabelRow == 3

InRange(range, row, col) ==
    /\ range.min_row <= row /\ row <= range.max_row
    /\ range.min_col <= col /\ col <= range.max_col

\* mutant: every cell of a merged range reads as its top-left cell
CellValue_OfRange(sheet, row, col) ==
    LET at == IF \E range \in sheet.merged : InRange(range, row, col)
              THEN LET range == CHOOSE r \in sheet.merged : InRange(r, row, col)
                   IN <<range.min_row, range.min_col>>
              ELSE <<row, col>>
    IN IF at \in DOMAIN sheet.cells THEN sheet.cells[at] ELSE NoValue

\* ws.cell(row=row, column=col).value
CellValue(sheet, row, col) ==
    IF /\ <<row, col>> \in DOMAIN sheet.cells
       /\ \A range \in sheet.merged :
              InRange(range, row, col) => (row = range.min_row /\ col = range.min_col)
    THEN sheet.cells[<<row, col>>]
    ELSE NoValue

\* cell.is_merged
is_merged(sheet, row, col) == \E range \in sheet.merged : InRange(range, row, col)

\* cell.merge_area
merge_area(sheet, row, col) == CHOOSE range \in sheet.merged : InRange(range, row, col)

\* mutant: every merged range is taken to be one column wide
Width_One(range) == 1

\* merge_area[0][0].merge_area.width
Width(range) == range.max_col - range.min_col + 1

\* the spelling of the texts found in teaching cells, character by character
Chars ==
    [x \in {"Ta A", "Tb B", "ta a.", "X Y"} |->
        CASE x = "Ta A" -> <<"T", "a", " ", "A">>
          [] x = "Tb B" -> <<"T", "b", " ", "B">>
          [] x = "ta a." -> <<"t", "a", " ", "a", ".">>
          [] x = "X Y" -> <<"X", " ", "Y">>]

\* str.lower(), one character
LowerChar(c) == CASE c = "T" -> "t" [] c = "A" -> "a" [] c = "B" -> "b"
                  [] c = "X" -> "x" [] c = "Y" -> "y" [] OTHER -> c

\* mutant: the comma is removed as well
Clean_AllPunctuation(text) == SelectSeq(text, LAMBDA c : c \notin {" ", ".", ","})

\* ''.join(text.strip().split()).replace('.', ''): no blank, no '.'
Clean(text) == SelectSeq(text, LAMBDA c : c # " " /\ c # ".")

Lower(text) == [i \in DOMAIN text |-> LowerChar(text[i])]

\* needle in hay
Contains(hay, needle) ==
    \E i \in 0..(Len(hay) - Len(needle)) :
        SubSeq(hay, i + 1, i + Len(needle)) = needle

\* contains_teacher_name(cell_value, teacher_name) for a str cell value
contains_teacher_name(cell_value, teacher_name) ==
    /\ Truthy(cell_value)
    /\ Contains(Lower(Clean(Chars[cell_value.s])), Lower(Clean(Chars[teacher_name])))

\* contains_teacher_name(cell_value, teacher_name) for a cell value that is
\* None or a str, and a name, both spelled character by character
ContainsTeacherName(cell_value, teacher_name) ==
    IF cell_value.none \/ cell_value.text = << >>
    THEN FALSE
    ELSE Contains(Lower(Clean(cell_value.text)), Lower(Clean(teacher_name)))

\* create_column_set(columns), as the set of its keys
create_column_set(columns) == Range(columns)

\* get_group_list(ws, merge_area, group_col_set)
get_group_list(sheet, range, group_col_set) ==
    LET start_col == range.min_col
        end_col == start_col + Width(range) - 1
        cols == [i \in 1..(end_col - start_col + 1) |-> start_col + i - 1]
        labelled == SelectSeq(cols, LAMBDA col :
                        /\ col \in group_col_set
                        /\ Truthy(CellValue(sheet, LabelRow, col)))
    IN [i \in DOMAIN labelled |-> CellValue(sheet, LabelRow, labelled[i]).s]

\* mutant: the scan takes the group columns to the left of the block too
get_audience_AnyColumn(sheet, row, last_col, group_columns) ==
    LET next == IF last_col + 1 <= sheet.max_column
                THEN Or(CellValue(sheet, row, last_col + 1), "")
                ELSE Str("")
        later == SelectSeq(group_columns, LAMBDA col :
                     Truthy(CellValue(sheet, row, col + 1)))
    IN IF Truthy(next) THEN next
       ELSE IF later # << >> THEN CellValue(sheet, row, later[1] + 1)
       ELSE Str("JOQ")

\* get_audience(ws, row, last_col, group_columns)
get_audience(sheet, row, last_col, group_columns) ==
    LET next == IF last_col + 1 <= sheet.max_column
                THEN Or(CellValue(sheet, row, last_col + 1), "")
                ELSE Str("")
        later == SelectSeq(group_columns, LAMBDA col :
                     col > last_col /\ Truthy(CellValue(sheet, row, col + 1)))
    IN IF Truthy(next) THEN next
       ELSE IF later # << >> THEN CellValue(sheet, row, later[1] + 1)
       ELSE Str("JOQ")

RECURSIVE Flatten(_)
Flatten(seqs) == IF seqs = << >> THEN << >> ELSE Head(seqs) \o Flatten(Tail(seqs))

\* the passes of the three loops of process_course, in order: [day_idx,
\* row, col]
LoopPasses(group_columns) ==
    Flatten([d \in DOMAIN DAY_RANGES |->
        Flatten([k \in 1..(DAY_RANGES[d][2] - DAY_RANGES[d][1] + 1) |->
            [c \in DOMAIN group_columns |->
                [day_idx |-> d, row |-> DAY_RANGES[d][1] + k - 1,
                 col |-> group_columns[c]]]])])

\* col == merge_area[0][0].column
IsAnchorColumn(range, col) == col = range.min_col

\* the value of the teaching cell of a pass, None when the pass skips it
TeachingValue(sheet, pass) ==
    IF /\ is_merged(sheet, pass.row + 1, pass.col)
       /\ IsAnchorColumn(merge_area(sheet, pass.row + 1, pass.col), pass.col)
    THEN CellValue(sheet, pass.row + 1, pass.col)
    ELSE NoValue

\* cell_value.strip() of an int raises AttributeError
Raises(sheet, pass) == Truthy(TeachingValue(sheet, pass))
                       /\ TeachingValue(sheet, pass).kind = "int"

\* whether the pass appends a record for the teacher
Matches(sheet, teacher_name, pass) ==
    /\ ~Raises(sheet, pass)
    /\ contains_teacher_name(TeachingValue(sheet, pass), teacher_name)

\* group_name = get_union_name(group_list, GROUP_UNIONS)
GroupName(labels) == get_union_name(labels, GROUP_UNIONS)

\* the dict appended to schedule_data by a pass
Record(sheet, teacher_name, group_columns, time_column, pass) ==
    LET range == merge_area(sheet, pass.row + 1, pass.col)
    IN [Oqitiwshi |-> teacher_name,
        Kun |-> DAY_NAMES[pass.day_idx],
        Jupliq |-> Or(CellValue(sheet, pass.row, time_column), "JOQ"),
        Topar |-> GroupName(get_group_list(sheet, range,
                                           create_column_set(group_columns))),
        Pan |-> Or(CellValue(sheet, pass.row, range.min_col), "JOQ"),
        Kabinet |-> get_audience(sheet, pass.row,
                                 range.min_col + Width(range) - 1, group_columns)]

\* process_course(ws, teacher_name, group_columns, time_column,
\* schedule_data): the records it appends, each with the pass that made it
process_course(sheet, teacher_name, group_columns, time_column) ==
    LET passes == SelectSeq(LoopPasses(group_columns),
                            LAMBDA pass : Matches(sheet, teacher_name, pass))
    IN [i \in DOMAIN passes |->
           [row |-> Record(sheet, teacher_name, group_columns, time_column, passes[i]),
            at |-> passes[i]]]

\* whether some pass of process_course raises
CourseRaises(sheet, group_columns) ==
    \E i \in DOMAIN LoopPasses(group_columns) :
        Raises(sheet, LoopPasses(group_columns)[i])

\* process_working_schedule(file_path, temp_file_path) on the active sheet:
\* ok is what it returns, rows the records of the frame it writes, at the
\* passes that appended them
process_working_schedule(sheet) ==
    LET made == Flatten([t \in DOMAIN TEACHER_NAMES |->
                    process_course(sheet, TEACHER_NAMES[t],
                                   GROUP_COLUMNS_FIRST_COURSE, TimeColumnFirstCourse)
                    \o process_course(sheet, TEACHER_NAMES[t],
                                      GROUP_COLUMNS_SECOND_COURSE, TimeColumnSecondCourse)])
        raised == \/ CourseRaises(sheet, GROUP_COLUMNS_FIRST_COURSE)
                  \/ CourseRaises(sheet, GROUP_COLUMNS_SECOND_COURSE)
        ok == ~raised /\ made # << >>
    IN [done |-> TRUE, ok |-> ok,
        rows |-> IF ok THEN [i \in DOMAIN made |-> made[i].row] ELSE << >>,
        at |-> IF ok THEN [i \in DOMAIN made |-> made[i].at] ELSE << >>]

\* schedule_data before the extractor has run
NotExtracted == [done |-> FALSE, ok |-> FALSE, rows |-> << >>, at |-> << >>]

----------------------------------------------------------------------------
(* Handlers *)

\* save_user_to_db(user_id, user_data): INSERT OR REPLACE into the users table
save_user_to_db(db, user_id, user_data) == Put(db, user_id, user_data)

\* mutant: the users table is read as empty
load_users_from_db_Nothing(db) == [uid \in {} |-> UserData]

\* load_users_from_db()
load_users_from_db(db) == db

\* the texts a user sends as a free-text message
DeleteText == <<"Kesteni oshiriw">>
NameTexts == {<<"T1">>}
Texts == NameTexts \cup {<<"201", "202">>, DeleteText}

\* what a sender types: a teacher asked for a name answers with a name
Typed(user_id, text) ==
    (/\ user_id \in DOMAIN users
     /\ users[user_id].role = Teacher
     /\ users[user_id].teacher_name = NoText) <=> text \in NameTexts

Quiet == sent' = << >> /\ call' = NoCall

\* mutant: any text is taken for a group name
KnownGroup_Any(text) == TRUE

\* text in GROUP_UNIONS
KnownGroup(text) == text \in DOMAIN GROUP_UNIONS

\* /start
start(user_id) ==
    LET loaded == IF DOMAIN users = {} THEN load_users_from_db(db_users) ELSE users
        subs == IF DOMAIN users = {} THEN SubscribedOf(loaded) ELSE subscribed_users
    IN /\ IF user_id \notin DOMAIN loaded
          THEN /\ users' = Put(loaded, user_id, UserData)
               /\ db_users' = save_user_to_db(db_users, user_id, UserData)
               /\ subscribed_users' = subs
          ELSE /\ users' = loaded
               /\ subscribed_users' = subs \cup {user_id}
               /\ UNCHANGED db_users
       /\ Quiet
       /\ UNCHANGED <<original_schedule, changes_schedule>>

\* /notify_on
notify_on(user_id) ==
    /\ IF user_id \notin DOMAIN users
       THEN UNCHANGED <<users, subscribed_users, db_users>>
       ELSE LET user_data == [users[user_id] EXCEPT !.notifications = TRUE]
            IN /\ users' = Put(users, user_id, user_data)
               /\ subscribed_users' = subscribed_users \cup {user_id}
               /\ db_users' = save_user_to_db(db_users, user_id, user_data)
    /\ Quiet
    /\ UNCHANGED <<original_schedule, changes_schedule>>

\* /notify_off
notify_off(user_id) ==
    /\ IF user_id \notin DOMAIN users
       THEN UNCHANGED <<users, subscribed_users, db_users>>
       ELSE LET user_data == [users[user_id] EXCEPT !.notifications = FALSE]
            IN /\ users' = Put(users, user_id, user_data)
               /\ subscribed_users' = subscribed_users \ {user_id}
               /\ db_users' = save_user_to_db(db_users, user_id, user_data)
    /\ Quiet
    /\ UNCHANGED <<original_schedule, changes_schedule>>

\* a message "Oqitiwshi" or "Student" (the Regex filter lets no other text in)
handle_role(user_id, role) ==
    /\ IF user_id \notin DOMAIN users
       THEN UNCHANGED <<users, db_users>>
       ELSE LET user_data == [users[user_id] EXCEPT !.role = role]
            IN /\ users' = Put(users, user_id, user_data)
               /\ db_users' = save_user_to_db(db_users, user_id, user_data)
    /\ Quiet
    /\ UNCHANGED <<subscribed_users, original_schedule, changes_schedule>>

\* how clear_db ends: "cleared" when nothing raises, "db_error" when a
\* database statement raises before the commit, "drive_error" when the
\* listing or the deletion of the Drive files raises after it
StoreOutcomes == {"cleared", "db_error"}
ClearOutcomes == StoreOutcomes \cup {"drive_error"}

\* clear_db: both tables dropped and created again, empty, and committed;
\* then the local files and the Drive files are removed
clear_db(outcome) ==
    IF outcome = "db_error"
    THEN UNCHANGED <<original_schedule, changes_schedule>>
    ELSE original_schedule' = EmptyBag /\ changes_schedule' = EmptyBag

\* what clear_db returns
ClearDbResult(outcome) == outcome = "cleared"

\* delete_schedule: what it does to bot_data.original_file and last_file
delete_schedule(outcome) ==
    IF ClearDbResult(outcome)
    THEN original_file' = None /\ last_file' = None
    ELSE UNCHANGED fileVars

\* mutant: the original schedule is read first
ScheduleRead_OriginalFirst(original, changes) ==
    IF Empty(original) THEN changes ELSE original

\* df = get_from_db("changes_schedule"), and get_from_db("original_schedule")
\* if df.empty
ScheduleRead(original, changes) ==
    IF Empty(changes) THEN original ELSE changes

\* any other text message
handle_message(user_id, text, outcome) ==
    LET df == ScheduleRead(original_schedule, changes_schedule)
        user_data == IF user_id \in DOMAIN users THEN users[user_id] ELSE UserData
        named == [user_data EXCEPT !.teacher_name = text]
        grouped == [user_data EXCEPT !.group = text]
    IN /\ IF user_id \notin DOMAIN users \/ Empty(df)
          THEN UNCHANGED <<users, db_users, original_schedule, changes_schedule>>
          ELSE IF user_data.role = Teacher /\ user_data.teacher_name = NoText
          THEN /\ users' = Put(users, user_id, named)
               /\ db_users' = save_user_to_db(db_users, user_id, named)
               /\ UNCHANGED <<original_schedule, changes_schedule>>
          ELSE IF user_data.role = Teacher /\ text = DeleteText
                  /\ user_id \in ALLOWED_USERS
          THEN /\ clear_db(outcome)
               /\ UNCHANGED <<users, db_users>>
          ELSE IF user_data.role = Student /\ user_data.group = NoText
                  /\ KnownGroup(text)
          THEN /\ users' = Put(users, user_id, grouped)
               /\ db_users' = save_user_to_db(db_users, user_id, grouped)
               /\ UNCHANGED <<original_schedule, changes_schedule>>
          ELSE UNCHANGED <<users, db_users, original_schedule, changes_schedule>>
       /\ Quiet
       /\ UNCHANGED subscribed_users

\* "Toliq hapteni koriw", the button that asks for the whole week
FullWeekText == <<"Toliq hapteni koriw">>

\* df[df["Oqitiwshi"] == user_data.teacher_name]
TeacherSchedule(df, teacher_name) ==
    [row \in {r \in BagToSet(df) : r.Oqitiwshi = teacher_name} |-> df[row]]

\* df[df["Topar"].apply(lambda x: any(g in parse_groups(x) for g in relevant_groups))]
StudentSchedule(df, relevant_groups) ==
    [row \in {r \in BagToSet(df) : \E g \in Range(relevant_groups) :
                                        g \in Range(parse_groups(r.Topar))}
        |-> df[row]]

\* whether handle_message reaches delete_schedule
Deletes(user_id, text) ==
    /\ user_id \in DOMAIN users
    /\ ~Empty(ScheduleRead(original_schedule, changes_schedule))
    /\ users[user_id].role = Teacher
    /\ users[user_id].teacher_name # NoText
    /\ text = DeleteText
    /\ user_id \in ALLOWED_USERS

\* what handle_message does to bot_data.original_file and last_file
handle_message_files(user_id, text, outcome) ==
    IF Deletes(user_id, text) THEN delete_schedule(outcome) ELSE UNCHANGED fileVars

\* what handle_message replies: the kind of the message, and the rows of the
\* schedule it formats
Answer(user_id, text, outcome) ==
    LET df == BagOfAll(StripColumns,
                       ScheduleRead(original_schedule, changes_schedule))
        user_data == IF user_id \in DOMAIN users THEN users[user_id] ELSE UserData
        Said(kind) == [kind |-> kind, rows |-> EmptyBag]
        Shown(schedule) == [kind |-> IF Empty(schedule) THEN "no lessons"
                                     ELSE "schedule",
                            rows |-> schedule]
    IN IF user_id \notin DOMAIN users THEN Said("start first")
       ELSE IF Empty(df) THEN Said("not loaded")
       ELSE IF user_data.role = Teacher
       THEN IF user_data.teacher_name = NoText THEN Said("registered")
            ELSE IF text = FullWeekText
            THEN Shown(TeacherSchedule(df, user_data.teacher_name))
            ELSE IF text = DeleteText /\ user_id \in ALLOWED_USERS
            THEN IF ClearDbResult(outcome) THEN Said("deleted")
                 ELSE Said("not deleted")
            ELSE Said("refused")
       ELSE IF user_data.role = Student
       THEN IF user_data.group = NoText
            THEN IF KnownGroup(text) THEN Said("registered")
                 ELSE Said("unknown group")
            ELSE IF KnownGroup(text)
            THEN Shown(StudentSchedule(df, GROUP_UNIONS[text]))
            ELSE IF ~KnownGroup(user_data.group) THEN Said("error")
            ELSE IF text = FullWeekText
            THEN Shown(StudentSchedule(df, GROUP_UNIONS[user_data.group]))
            ELSE Said("none")
       ELSE Said("none")

\* the file names handle_file accepts, and one it does not
OrigName == "keste_bot_orig.xlsx"
ChangesName == "keste_bot_ozgeris.xlsx"
WorkingName == "Sabaq keste_DELL.xlsx"
WorkingChangesName == "Sabaq keste_DELL_ozgeris.xlsx"
FileNames == {OrigName, ChangesName, WorkingName, WorkingChangesName, "other.xlsx"}

\* the documents sent in the lifecycle specification Spec: a file that is
\* turned down before it is read is sent with no rows
Files ==
    {f \in [file_name : FileNames, valid : BOOLEAN, df : FileFrames] :
        /\ f.file_name = "other.xlsx" => f.valid /\ f.df = EmptyBag
        /\ f.file_name \in {WorkingName, WorkingChangesName} => f.valid
        /\ ~f.valid => f.df = EmptyBag}

\* mutant: a working timetable is stored as a changes schedule
IsOriginalName_OrigOnly(file_name) == file_name = OrigName

IsOriginalName(file_name) == file_name \in {OrigName, WorkingName}
IsWorkingName(file_name) == file_name \in {WorkingName, WorkingChangesName}

\* mutant: an extraction with no record is reported as a success
WorkingScheduleOk_Always(df) == TRUE

\* what process_working_schedule returns for the frame df of the records
\* it extracted: if df.empty: return False
WorkingScheduleOk(df) == ~Empty(df)

\* whether handle_file stores the file: the sender is an admin, the name is
\* one of the four, and process_working_schedule (a working table: False
\* when no row was extracted) or check_excel_file (valid) accepts it
Accepted(user_id, file_name, valid, df) ==
    /\ user_id \in ALLOWED_USERS
    /\ file_name \in {OrigName, ChangesName, WorkingName, WorkingChangesName}
    /\ IF IsWorkingName(file_name) THEN WorkingScheduleOk(df) ELSE valid

\* a document: df is the sheet "keste" of the file (for a working table, the
\* rows process_working_schedule extracts)
handle_file(user_id, file_name, valid, df, order) ==
    LET is_original == IsOriginalName(file_name)
        original == IF is_original THEN df ELSE original_schedule
        changes == IF is_original THEN changes_schedule ELSE df
        n == notify_users(users, subscribed_users, original, changes,
                          is_original, user_id, order,
                          IF is_original THEN EmptyBag ELSE changes_schedule)
    IN /\ IF Accepted(user_id, file_name, valid, df)
          THEN /\ original_schedule' = original
               /\ changes_schedule' = changes
               /\ sent' = n.sent
               /\ call' = n.call
          ELSE /\ UNCHANGED <<original_schedule, changes_schedule>>
               /\ Quiet
       /\ UNCHANGED <<users, subscribed_users, db_users>>

\* the paths handle_file builds, without their time stamp
OrigPath == "keste_bot_orig"
ChangesPath == "keste_bot_ozgeris"

\* what handle_file does to bot_data.original_file and last_file: both are
\* assigned once the name is recognised and the file is downloaded, before
\* the file is read
handle_file_files(user_id, file_name) ==
    IF /\ user_id \in ALLOWED_USERS
       /\ file_name \in {OrigName, ChangesName, WorkingName, WorkingChangesName}
    THEN /\ original_file' = IF IsOriginalName(file_name) THEN OrigPath
                              ELSE original_file
         /\ last_file' = IF IsOriginalName(file_name) THEN OrigPath
                          ELSE ChangesPath
    ELSE UNCHANGED fileVars

\* init_bot, run again when the process restarts: the directory is loaded
\* from the store and subscribed_users is built from it; both tables are
\* saved again from the files last uploaded
init_bot ==
    /\ users' = load_users_from_db(db_users)
    /\ subscribed_users' = SubscribedOf(load_users_from_db(db_users))
    /\ Quiet
    /\ UNCHANGED <<db_users, original_schedule, changes_schedule>>

----------------------------------------------------------------------------
(* The lifecycle specification: a fresh deployment and every sequence of    *)
(* updates sent by Senders                                                  *)

EmptyDir == [uid \in {} |-> UserData]

\* no document handled, no worksheet read, no label list resolved
NoUpload == [user_id |-> 0, file_name |-> "", valid |-> FALSE, df |-> EmptyBag,
             accepted |-> FALSE, replaced |-> EmptyBag]
NoSheet == << >>
NoLabels == << >>

NoMatch == [cell_value |-> [none |-> TRUE, text |-> << >>],
            teacher_name |-> << >>, done |-> FALSE, result |-> FALSE]

\* the bot as constructed, with empty storage
Dormant ==
    /\ users = EmptyDir
    /\ subscribed_users = {}
    /\ db_users = EmptyDir
    /\ original_schedule = EmptyBag
    /\ changes_schedule = EmptyBag
    /\ sent = << >>
    /\ call = NoCall
    /\ upload = NoUpload

IdleMatch == match = NoMatch

\* no path kept, no message answered
NoReply == [user_id |-> 0, text |-> << >>, kind |-> "none", rows |-> EmptyBag,
            original |-> EmptyBag, changes |-> EmptyBag,
            original_file |-> None, last_file |-> None, users |-> EmptyDir]

IdleFiles == original_file = None /\ last_file = None

IdleReply == reply = NoReply

\* no notify_users call under way
NoPass == [pc |-> "idle", phase |-> "", mode |-> "", uploader_id |-> 0,
           to |-> 0, todo |-> << >>, size |-> 0, notified_users |-> {},
           affected_teachers |-> {}, affected_groups |-> {},
           delivered |-> << >>, targets |-> {}, ended |-> "",
           interleaved |-> FALSE]

\* the documents handled at the same time
Slots == {1, 2}

\* no handle_file call under way in a slot
NoTransfer == [pc |-> "idle", user_id |-> 0, file_name |-> "", df |-> EmptyBag,
               original |-> EmptyBag, old_df |-> EmptyBag, new_df |-> EmptyBag]

IdleJobs == job = NoPass /\ uploads = [k \in Slots |-> NoTransfer]

IdleAux == IdleMatch /\ IdleFiles /\ IdleReply /\ IdleJobs

Idle == /\ ws = NoSheet /\ schedule_data = NotExtracted
        /\ group_list = NoLabels /\ union_name = << >>
        /\ IdleAux

Init ==
    /\ users = EmptyDir
    /\ subscribed_users = {}
    /\ db_users = EmptyDir
    /\ original_schedule = EmptyBag
    /\ changes_schedule = EmptyBag
    /\ sent = << >>
    /\ call = NoCall
    /\ upload = NoUpload
    /\ Idle

Rest == UNCHANGED <<upload, sheetVars, resolveVars, auxVars>>

Start == (\E user_id \in Senders : start(user_id)) /\ Rest
NotifyOn == (\E user_id \in Senders : notify_on(user_id)) /\ Rest
NotifyOff == (\E user_id \in Senders : notify_off(user_id)) /\ Rest
HandleRole == (\E user_id \in Senders, role \in {Teacher, Student} :
                  handle_role(user_id, role)) /\ Rest
HandleMessage == (\E user_id \in Senders, text \in Texts, outcome \in StoreOutcomes :
                     Typed(user_id, text) /\ handle_message(user_id, text, outcome)) /\ Rest
HandleFile == (\E user_id \in Senders, file \in Files, order \in Orders(DOMAIN users) :
                  handle_file(user_id, file.file_name, file.valid, file.df, order)) /\ Rest
InitBot == init_bot /\ Rest

Next == \/ Start
        \/ NotifyOn
        \/ NotifyOff
        \/ HandleRole
        \/ HandleMessage
        \/ HandleFile
        \/ InitBot

Spec == Init /\ [][Next]_vars

----------------------------------------------------------------------------
(* The notification specification: notify_users in change mode, applied    *)
(* once to a directory of up to three users and two stored snapshots of up *)
(* to MaxRows rows.  Every initial state is a state the bot can be in:     *)
(* each profile is one a user reaches by /start, a role, a name or group   *)
(* and /notify_off, and each table is what an upload stored.               *)

Profile(role, teacher_name, group, notifications) ==
    [role |-> role, teacher_name |-> teacher_name, group |-> group,
     notifications |-> notifications]

SampleProfiles ==
    { Profile(None, NoText, NoText, TRUE),
      Profile(Teacher, NoText, NoText, TRUE),
      Profile(Teacher, <<"T1">>, NoText, TRUE),
      Profile(Teacher, <<"T1">>, NoText, FALSE),
      Profile(Student, <<"T1">>, NoText, TRUE),
      Profile(Student, NoText, <<"203">>, TRUE),
      Profile(Student, NoText, <<"201", "202">>, FALSE) }

Directories == UNION {[ids -> SampleProfiles] : ids \in SUBSET UserIds}

InitNotify ==
    /\ users \in Directories
    /\ subscribed_users = SubscribedOf(users)
    /\ db_users = users
    /\ original_schedule \in Frames(RecordPool, MaxRows)
    /\ changes_schedule \in Frames(RecordPool, MaxRows)
    /\ sent = << >>
    /\ call = NoCall
    /\ upload = NoUpload
    /\ Idle

\* await notify_users(context, False, user_id), as handle_file calls it for
\* an admin once the changes table is saved
NotifyChanges ==
    /\ call.mode = "none"
    /\ \E uploader_id \in ALLOWED_USERS, order \in Orders(DOMAIN users) :
          LET n == notify_users(users, subscribed_users, original_schedule,
                                changes_schedule, FALSE, uploader_id, order,
                                EmptyBag)
          IN sent' = n.sent /\ call' = n.call
    /\ UNCHANGED <<users, subscribed_users, db_users, original_schedule,
                   changes_schedule>>
    /\ Rest

NextNotify == NotifyChanges

SpecNotify == InitNotify /\ [][NextNotify]_vars

----------------------------------------------------------------------------
(* The upload specification: handle_file applied, again and again, to a    *)
(* directory of registered users and two stored snapshots, with the        *)
(* document it was given kept in upload.                                   *)

UploadProfiles ==
    { Profile(Teacher, <<"T1">>, NoText, TRUE),
      Profile(Student, NoText, <<"201", "202">>, FALSE) }

UploadDirectories == UNION {[ids -> UploadProfiles] : ids \in SUBSET UserIds}

InitUpload ==
    /\ users \in UploadDirectories
    /\ subscribed_users = SubscribedOf(users)
    /\ db_users = users
    /\ original_schedule \in FileFrames
    /\ changes_schedule \in FileFrames
    /\ sent = << >>
    /\ call = NoCall
    /\ upload = NoUpload
    /\ Idle

\* application.process_update hands a document to handle_file
Upload ==
    /\ \E user_id \in Senders, file \in Files, order \in Orders(DOMAIN users) :
          /\ handle_file(user_id, file.file_name, file.valid, file.df, order)
          /\ upload' = [user_id |-> user_id, file_name |-> file.file_name,
                         valid |-> file.valid, df |-> file.df,
                         accepted |-> Accepted(user_id, file.file_name,
                                               file.valid, file.df),
                         replaced |-> IF IsOriginalName(file.file_name)
                                      THEN original_schedule
                                      ELSE changes_schedule]
          /\ handle_file_files(user_id, file.file_name)
    /\ UNCHANGED <<sheetVars, resolveVars, match, reply, jobVars>>

NextUpload == Upload

SpecUpload == InitUpload /\ [][NextUpload]_vars

----------------------------------------------------------------------------
(* The resolver specification: get_union_name applied once to a list of at *)
(* most MaxLabels labels, as get_group_list builds it (any labels, in any  *)
(* order, with repetitions).                                               *)

LabelLists == UNION {[1..n -> Range(LabelOrder)] : n \in 0..MaxLabels}

InitResolve ==
    /\ users = EmptyDir
    /\ subscribed_users = {}
    /\ db_users = EmptyDir
    /\ original_schedule = EmptyBag
    /\ changes_schedule = EmptyBag
    /\ sent = << >>
    /\ call = NoCall
    /\ upload = NoUpload
    /\ ws = NoSheet
    /\ schedule_data = NotExtracted
    /\ group_list \in LabelLists
    /\ union_name = << >>
    /\ IdleAux

\* group_name = get_union_name(group_list, GROUP_UNIONS)
Resolve ==
    /\ union_name = << >>
    /\ union_name' = get_union_name(group_list, GROUP_UNIONS)
    /\ UNCHANGED <<botVars, sheetVars, group_list, auxVars>>

NextResolve == Resolve

SpecResolve == InitResolve /\ [][NextResolve]_vars

----------------------------------------------------------------------------
(* The extractor specification: process_working_schedule applied once to a *)
(* worksheet.  The sheets differ in the labels of the two group columns of *)
(* the first course, in the merged ranges of the teaching rows, and in the *)
(* values of the teaching, time, subject and room cells.                   *)

Block(min_row, max_row, min_col, max_col) ==
    [min_row |-> min_row, max_row |-> max_row,
     min_col |-> min_col, max_col |-> max_col]

\* the merged ranges of a sheet: none; one over both group columns; one
\* over two rows; two side by side; one over both columns and rows; one in
\* the second course; one in each teaching row
Layouts ==
    { {},
      {Block(6, 6, 4, 6)},
      {Block(6, 7, 4, 4)},
      {Block(6, 7, 4, 4), Block(6, 7, 6, 6)},
      {Block(6, 7, 4, 6)},
      {Block(6, 7, 33, 33)},
      {Block(6, 6, 4, 6), Block(7, 7, 4, 6)} }

MaxOf(S) == CHOOSE x \in S : \A y \in S : y <= x

Sheet(label4, label6, time, subject, room5, room7, teaching4, teaching6, merged) ==
    LET cells == (<<3, 4>> :> label4) @@ (<<3, 6>> :> label6)
                 @@ (<<3, 33>> :> Str("201"))
                 @@ (<<5, 3>> :> time) @@ (<<5, 4>> :> subject)
                 @@ (<<5, 5>> :> room5) @@ (<<5, 6>> :> Str("Fizika"))
                 @@ (<<5, 7>> :> room7) @@ (<<5, 33>> :> Str("Ximiya"))
                 @@ (<<6, 4>> :> teaching4) @@ (<<6, 6>> :> teaching6)
                 @@ (<<6, 33>> :> Str("Tb B")) @@ (<<7, 4>> :> Str("ta a."))
    IN [cells |-> cells, merged |-> merged,
        max_column |-> MaxOf({coord[2] : coord \in DOMAIN cells})]

Sheets ==
    { Sheet(label4, label6, time, subject, room5, room7, teaching4, teaching6, merged) :
        label4 \in {NoValue, Str("101")},
        label6 \in {NoValue, Str("102"), Str("999")},
        time \in {NoValue, Num("1")},
        subject \in {NoValue, Str("Math")},
        room5 \in {NoValue, Str("204")},
        room7 \in {NoValue, Str("305")},
        teaching4 \in {Str("ta a."), Str("Tb B"), Str("X Y"), Num("7")},
        teaching6 \in {NoValue, Str("ta a.")},
        merged \in Layouts }

InitExtract ==
    /\ users = EmptyDir
    /\ subscribed_users = {}
    /\ db_users = EmptyDir
    /\ original_schedule = EmptyBag
    /\ changes_schedule = EmptyBag
    /\ sent = << >>
    /\ call = NoCall
    /\ upload = NoUpload
    /\ ws \in Sheets
    /\ schedule_data = NotExtracted
    /\ group_list = NoLabels
    /\ union_name = << >>
    /\ IdleAux

\* process_working_schedule(file_path, temp_file_path), as handle_file calls
\* it for a working table
Extract ==
    /\ ~schedule_data.done
    /\ schedule_data' = process_working_schedule(ws)
    /\ UNCHANGED <<botVars, ws, resolveVars, auxVars>>

NextExtract == Extract

SpecExtract == InitExtract /\ [][NextExtract]_vars

----------------------------------------------------------------------------
(* The matching specification: contains_teacher_name applied to one cell   *)
(* value and one name.                                                     *)

\* the characters the texts are spelled with: a letter in both cases, the
\* blank, the full stop and one other punctuation mark
Alphabet == {"a", "A", " ", ".", ","}

TextsUpTo(n) == UNION {[1..k -> Alphabet] : k \in 0..n}

\* None, the empty string, and every text of up to MaxChars characters
CellValues ==
    {[none |-> TRUE, text |-> << >>]}
        \cup {[none |-> FALSE, text |-> t] : t \in TextsUpTo(MaxChars)}

\* the names looked for: one or two characters
NamePool == TextsUpTo(MaxChars - 1) \ {<< >>}

InitContains ==
    /\ Dormant
    /\ ws = NoSheet /\ schedule_data = NotExtracted
    /\ group_list = NoLabels /\ union_name = << >>
    /\ IdleFiles /\ IdleReply /\ IdleJobs
    /\ match \in {[cell_value |-> c, teacher_name |-> n, done |-> FALSE,
                    result |-> FALSE] : c \in CellValues, n \in NamePool}

\* contains_teacher_name(cell_value, teacher), as process_course calls it
ContainsName ==
    /\ ~match.done
    /\ match' = [match EXCEPT !.done = TRUE,
                     !.result = ContainsTeacherName(match.cell_value,
                                                    match.teacher_name)]
    /\ UNCHANGED <<botVars, sheetVars, resolveVars, fileVars, reply, jobVars>>

NextContains == ContainsName

SpecContains == InitContains /\ [][NextContains]_vars

----------------------------------------------------------------------------
(* The query specification: registered users, files uploaded by an admin   *)
(* in any order, and the messages the users send in between.               *)

QueryProfiles ==
    { Profile(Teacher, <<"T1">>, NoText, TRUE),
      Profile(Student, NoText, <<"201", "202">>, TRUE) }

QueryDirectories == UNION {[ids -> QueryProfiles] : ids \in SUBSET Senders}

QueryTexts == {FullWeekText, DeleteText, <<"201", "206">>}

InitQuery ==
    /\ users \in QueryDirectories
    /\ subscribed_users = SubscribedOf(users)
    /\ db_users = users
    /\ original_schedule = EmptyBag
    /\ changes_schedule = EmptyBag
    /\ sent = << >>
    /\ call = NoCall
    /\ upload = NoUpload
    /\ ws = NoSheet /\ schedule_data = NotExtracted
    /\ group_list = NoLabels /\ union_name = << >>
    /\ IdleAux

\* application.process_update hands a document to handle_file
QueryUpload ==
    /\ \E user_id \in Senders, file \in Files, order \in Orders(DOMAIN users) :
          /\ handle_file(user_id, file.file_name, file.valid, file.df, order)
          /\ handle_file_files(user_id, file.file_name)
          /\ upload' = [user_id |-> user_id, file_name |-> file.file_name,
                         valid |-> file.valid, df |-> file.df,
                         accepted |-> Accepted(user_id, file.file_name,
                                               file.valid, file.df),
                         replaced |-> IF IsOriginalName(file.file_name)
                                      THEN original_schedule
                                      ELSE changes_schedule]
    /\ reply' = NoReply
    /\ UNCHANGED <<sheetVars, resolveVars, match, jobVars>>

\* application.process_update hands a text message to handle_message
Ask ==
    /\ \E user_id \in Senders, text \in QueryTexts, outcome \in ClearOutcomes :
          /\ handle_message(user_id, text, outcome)
          /\ handle_message_files(user_id, text, outcome)
          /\ reply' = [user_id |-> user_id, text |-> text,
                        kind |-> Answer(user_id, text, outcome).kind,
                        rows |-> Answer(user_id, text, outcome).rows,
                        original |-> original_schedule,
                        changes |-> changes_schedule,
                        original_file |-> original_file,
                        last_file |-> last_file, users |-> users]
    /\ UNCHANGED <<upload, sheetVars, resolveVars, match, jobVars>>

NextQuery == QueryUpload \/ Ask

SpecQuery == InitQuery /\ [][NextQuery]_vars

----------------------------------------------------------------------------
(* The pass specification: one notify_users call, taken from one await to  *)
(* the next, while the handlers of other updates run at its awaits.  Every *)
(* webhook request awaits process_update on its own, so the handlers of    *)
(* two updates interleave wherever one of them awaits.                     *)

\* the pass is over: "complete", or the exception the except clause caught
Ended(p, how) == [p EXCEPT !.pc = "done", !.to = 0, !.ended = how]

\* the pass waits for send_message to user_id
Sending(p, user_id, rest) == [p EXCEPT !.pc = "send", !.to = user_id, !.todo = rest]

\* for user_id in bot_data.subscribed_users, from the next step of the set
\* iterator to the next await: the iterator raises RuntimeError when the set
\* has changed size since the loop began, and walks the slots of the
\* table, which the model keeps as the order of all ids
RECURSIVE OriginalNext(_)
OriginalNext(p) ==
    IF Cardinality(subscribed_users) # p.size THEN Ended(p, "RuntimeError")
    ELSE IF p.todo = << >> THEN Ended(p, "complete")
    ELSE IF Head(p.todo) \notin subscribed_users \/ Head(p.todo) = p.uploader_id
    THEN OriginalNext([p EXCEPT !.todo = Tail(p.todo)])
    ELSE Sending(p, Head(p.todo), Tail(p.todo))

\* for user_id, user_data in bot_data.users.items(), from the next step of
\* the dict iterator to the next await, and the uploader's message after
\* the loop
RECURSIVE ChangeNext(_)
ChangeNext(p) ==
    IF Cardinality(DOMAIN users) # p.size THEN Ended(p, "RuntimeError")
    ELSE IF p.todo = << >>
    THEN IF UploaderLast(p.uploader_id, p.notified_users) = << >>
         THEN Ended(p, "complete")
         ELSE [Sending(p, p.uploader_id, << >>) EXCEPT !.phase = "last"]
    ELSE LET uid == Head(p.todo)
             user_data == users[uid]
         IN IF Skipped(uid, user_data) \/ uid \in p.notified_users
            THEN ChangeNext([p EXCEPT !.todo = Tail(p.todo)])
            ELSE IF \/ TeacherMatch(user_data, p.affected_teachers)
                    \/ StudentMatch(user_data, p.affected_groups)
            THEN Sending(p, uid, Tail(p.todo))
            ELSE ChangeNext([p EXCEPT !.todo = Tail(p.todo)])

\* notify_users up to its first await
notify_users_begin(is_original, uploader_id, order) ==
    LET old_df == BagOfAll(StripColumns, original_schedule)
        new_df == BagOfAll(StripColumns, changes_schedule)
        changes == Changes(old_df, new_df)
        p == [NoPass EXCEPT
                 !.mode = IF is_original THEN "original" ELSE "change",
                 !.uploader_id = uploader_id,
                 !.targets = {m.to : m \in Range(
                                 notify_users(users, subscribed_users,
                                              original_schedule, changes_schedule,
                                              is_original, uploader_id, order,
                                              EmptyBag).sent)}]
    IN IF is_original
       THEN IF uploader_id \in ALLOWED_USERS
            THEN [Sending(p, uploader_id, order) EXCEPT !.phase = "first"]
            ELSE OriginalNext([p EXCEPT !.phase = "loop", !.todo = order,
                                        !.size = Cardinality(subscribed_users)])
       ELSE IF CannotCompare(old_df, new_df) \/ changes = {}
       THEN Ended(p, "complete")
       ELSE ChangeNext([p EXCEPT !.phase = "loop",
                                 !.todo = Iterate(DOMAIN users, order),
                                 !.size = Cardinality(DOMAIN users),
                                 !.affected_teachers = AffectedTeachers(changes),
                                 !.affected_groups = AffectedGroups(changes)])

\* notify_users from the await of a send_message to the next await:
\* send_message returns, or raises and the except clause ends the call
notify_users_resume(p, delivered) ==
    LET q == [p EXCEPT !.delivered = Append(@, p.to)]
    IN IF ~delivered THEN Ended(p, "send failed")
       ELSE IF p.phase = "first"
       THEN OriginalNext([q EXCEPT !.phase = "loop",
                                   !.size = Cardinality(subscribed_users)])
       ELSE IF p.phase = "last" THEN Ended(q, "complete")
       ELSE IF p.mode = "original" THEN OriginalNext(q)
       ELSE ChangeNext([q EXCEPT !.notified_users = @ \cup {p.to}])

PassTables == {SetToBag({RowA}), SetToBag({RowB})}

InitPass ==
    /\ users \in UploadDirectories
    /\ subscribed_users = SubscribedOf(users)
    /\ db_users = users
    /\ original_schedule \in PassTables
    /\ changes_schedule \in PassTables
    /\ sent = << >>
    /\ call = NoCall
    /\ upload = NoUpload
    /\ Idle

\* await notify_users(context, is_original, user_id), as handle_file calls
\* it for an admin
BeginPass ==
    /\ job.pc = "idle"
    /\ \E is_original \in BOOLEAN, uploader_id \in ALLOWED_USERS, order \in Orders(UserIds) :
          job' = notify_users_begin(is_original, uploader_id, order)
    /\ UNCHANGED <<botVars, sheetVars, resolveVars, match, fileVars, reply, uploads>>

\* the awaited send_message is over
ResumePass ==
    /\ job.pc = "send"
    /\ \E delivered \in BOOLEAN : job' = notify_users_resume(job, delivered)
    /\ UNCHANGED <<botVars, sheetVars, resolveVars, match, fileVars, reply, uploads>>

\* the handler of an update of another user runs while the pass awaits
Others == Senders \ {job.uploader_id}

Meanwhile ==
    /\ job.pc = "send"
    /\ job' = [job EXCEPT !.interleaved = TRUE]
    /\ UNCHANGED <<upload, sheetVars, resolveVars, match, fileVars, reply, uploads>>

StartMeanwhile == (\E user_id \in Others : start(user_id)) /\ Meanwhile
NotifyOnMeanwhile == (\E user_id \in Others : notify_on(user_id)) /\ Meanwhile
NotifyOffMeanwhile == (\E user_id \in Others : notify_off(user_id)) /\ Meanwhile

NextPass == \/ BeginPass
            \/ ResumePass
            \/ StartMeanwhile
            \/ NotifyOnMeanwhile
            \/ NotifyOffMeanwhile

SpecPass == InitPass /\ [][NextPass]_vars

----------------------------------------------------------------------------
(* The race specification: two documents handled at the same time.  Each   *)
(* handle_file call stores its frame, awaits reply_text, and only then     *)
(* calls notify_users, which reads both tables again.                      *)

\* handle_file for an accepted document, up to await reply_text:
\* save_to_db(df, table_name)
handle_file_save(file_name, df) ==
    /\ IF IsOriginalName(file_name)
       THEN original_schedule' = df /\ UNCHANGED changes_schedule
       ELSE changes_schedule' = df /\ UNCHANGED original_schedule
    /\ UNCHANGED <<users, subscribed_users, db_users, sent, call>>

\* handle_file after await reply_text: await notify_users(context,
\* is_original, user_id)
handle_file_notify(user_id, file_name, order) ==
    LET n == notify_users(users, subscribed_users, original_schedule,
                          changes_schedule, IsOriginalName(file_name), user_id,
                          order, EmptyBag)
    IN /\ sent' = n.sent
       /\ call' = n.call
       /\ UNCHANGED <<users, subscribed_users, db_users, original_schedule,
                      changes_schedule>>

RaceNames == {OrigName, ChangesName}

InitRace ==
    /\ users \in UploadDirectories
    /\ subscribed_users = SubscribedOf(users)
    /\ db_users = users
    /\ original_schedule \in FileFrames
    /\ changes_schedule \in FileFrames
    /\ sent = << >>
    /\ call = NoCall
    /\ upload = NoUpload
    /\ Idle

\* a document arrives and is stored; the handler awaits reply_text
StoreUpload ==
    /\ \E k \in Slots, user_id \in ALLOWED_USERS, file_name \in RaceNames, df \in FileFrames :
          /\ uploads[k].pc = "idle"
          /\ Accepted(user_id, file_name, TRUE, df)
          /\ handle_file_save(file_name, df)
          /\ uploads' = [uploads EXCEPT ![k] =
                            [NoTransfer EXCEPT
                                !.pc = "stored", !.user_id = user_id,
                                !.file_name = file_name, !.df = df,
                                !.original = IF IsOriginalName(file_name) THEN df
                                             ELSE original_schedule]]
    /\ UNCHANGED <<upload, sheetVars, resolveVars, match, fileVars, reply, job>>

\* reply_text is over and the handler notifies; old_df and new_df are the
\* frames get_from_db hands to notify_users
NotifyUpload ==
    /\ \E k \in Slots, order \in Orders(DOMAIN users) :
          /\ uploads[k].pc = "stored"
          /\ handle_file_notify(uploads[k].user_id, uploads[k].file_name, order)
          /\ uploads' = [uploads EXCEPT ![k] =
                            [@ EXCEPT !.pc = "done",
                                      !.old_df = BagOfAll(StripColumns, original_schedule),
                                      !.new_df = BagOfAll(StripColumns, changes_schedule)]]
    /\ UNCHANGED <<upload, sheetVars, resolveVars, match, fileVars, reply, job>>

NextRace == StoreUpload \/ NotifyUpload

SpecRace == InitRace /\ [][NextRace]_vars

----------------------------------------------------------------------------
(* Vocabulary of the properties *)

SentTo == {sent[i].to : i \in DOMAIN sent}

\* the stored tables as notify_users reads them
OldRows == BagOfAll(StripColumns, original_schedule)
NewRows == BagOfAll(StripColumns, changes_schedule)

\* row carries the identity of the profile: its teacher name, or one of the
\* parts of its group name is a raw label of the student's group
Concerns(row, user_data) ==
    \/ user_data.role = Teacher /\ row.Oqitiwshi = user_data.teacher_name
    \/ /\ user_data.role = Student
       /\ user_data.group \in GroupUnionKeys
       /\ Range(GROUP_UNIONS[user_data.group]) \cap Range(row.Topar) # {}

\* some row that occurs exactly once in the two frames together concerns
\* the profile
ChangedFor(user_data, old, new) ==
    \E row \in BagToSet(old) \cup BagToSet(new) :
        CopiesIn(row, old) + CopiesIn(row, new) = 1 /\ Concerns(row, user_data)

\* some row whose number of occurrences differs between the two frames
\* concerns the profile
DiffersFor(user_data, old, new) ==
    \E row \in BagToSet(old) \cup BagToSet(new) :
        CopiesIn(row, old) # CopiesIn(row, new) /\ Concerns(row, user_data)

----------------------------------------------------------------------------
(* C2 *)

----------------------------------------------------------------------------
(* C3 *)

\* C3: after an accepted original upload every user of the directory whose
\* notifications flag is true has been sent the new-schedule notification,
\* and so has the uploader when they are in ALLOWED_USERS.
C3_EverySubscribedUserNotified ==
    call.mode = "original" =>
        /\ \A uid \in DOMAIN users : users[uid].notifications => uid \in SentTo
        /\ call.uploader_id \in ALLOWED_USERS => call.uploader_id \in SentTo

----------------------------------------------------------------------------
(* C4 *)

\* C4: the notifications sent by one notify_users call go to pairwise
\* distinct user ids, in the new-schedule mode and in the change mode.
C4_AtMostOnce ==
    \A i, j \in DOMAIN sent : sent[i].to = sent[j].to => i = j

\* the uploader is a student whose group has two raw labels among the
\* affected groups, and has been notified
C4_Witness ==
    /\ call.mode = "change"
    /\ call.uploader_id \in DOMAIN users
    /\ users[call.uploader_id].role = Student
    /\ users[call.uploader_id].group \in GroupUnionKeys
    /\ Cardinality(Range(GROUP_UNIONS[users[call.uploader_id].group])
                       \cap call.affected_groups) >= 2
    /\ call.uploader_id \in SentTo
    /\ Len(sent) >= 2

----------------------------------------------------------------------------
(* C7 *)

\* C7: when the original or the changes snapshot is empty as a changes
\* upload is processed, no diff is reported: both affected sets are empty
\* and nobody is notified.
C7_NoDiffWithoutBothSides ==
    (call.mode = "change" /\ (Empty(original_schedule) \/ Empty(changes_schedule))) =>
        /\ call.affected_teachers = {}
        /\ call.affected_groups = {}
        /\ sent = << >>

\* a changes upload with rows of a subscribed, registered teacher while the
\* original snapshot is empty
C7_Witness ==
    /\ call.mode = "change"
    /\ Empty(original_schedule)
    /\ ~Empty(changes_schedule)
    /\ \E uid \in DOMAIN users :
          /\ users[uid].notifications
          /\ \E row \in BagToSet(NewRows) : Concerns(row, users[uid])
    /\ sent = << >>

----------------------------------------------------------------------------
(* C8 *)

\* C8, for an original-schedule upload: an upload accepted and stored while
\* the original snapshot is empty notifies every user whose notifications
\* flag is true.
C8_FirstUploadNotifiesEverySubscriber ==
    [][(call'.mode = "original" /\ Empty(original_schedule)) =>
          \A uid \in DOMAIN users' :
              users'[uid].notifications => \E i \in DOMAIN sent' : sent'[i].to = uid]_vars

----------------------------------------------------------------------------
(* C1 *)

\* the targeting rule of the claim, on the affected sets of the call
Eligible(uid) == users[uid].notifications \/ uid \in ALLOWED_USERS

TeacherAffected(uid) ==
    users[uid].role = Teacher /\ users[uid].teacher_name \in call.affected_teachers

StudentAffected(uid) ==
    /\ users[uid].role = Student
    /\ users[uid].group \in GroupUnionKeys
    /\ Range(GROUP_UNIONS[users[uid].group]) \cap call.affected_groups # {}

Incomplete(uid) ==
    \/ users[uid].role = None
    \/ users[uid].role = Teacher /\ users[uid].teacher_name = NoText
    \/ users[uid].role = Student /\ users[uid].group = NoText

\* C1: in change mode with both snapshots non-empty and a non-empty diff, a
\* user other than the uploader is sent the change notification if and only
\* if (notifications or admin) and (teacher with an affected name, or
\* student with a raw label of their group affected); a user with no role
\* or no identity is never sent it.
C1_TargetedIffEligibleAndAffected ==
    (call.mode = "change" /\ call.compared /\ call.changes # {}) =>
        \A uid \in DOMAIN users \ {call.uploader_id} :
            /\ uid \in SentTo <=>
                  (Eligible(uid) /\ (TeacherAffected(uid) \/ StudentAffected(uid)))
            /\ Incomplete(uid) => uid \notin SentTo

\* an admin who is not the uploader and has notifications off is notified,
\* a plain user with notifications off and an affected group is not
C1_Witness ==
    /\ call.mode = "change" /\ call.compared /\ call.changes # {}
    /\ \E a, b \in DOMAIN users \ {call.uploader_id} :
          /\ a \in ALLOWED_USERS /\ ~users[a].notifications
          /\ TeacherAffected(a) /\ a \in SentTo
          /\ b \notin ALLOWED_USERS /\ ~users[b].notifications
          /\ StudentAffected(b) /\ b \notin SentTo

----------------------------------------------------------------------------
(* C5 *)

\* C5: the rows the change detector reports are exactly the rows whose
\* number of occurrences in the old snapshot differs from their number of
\* occurrences in the new snapshot.
C5_MultisetDifference ==
    (call.mode = "change" /\ call.compared) =>
        call.changes = {row \in BagToSet(OldRows) \cup BagToSet(NewRows) :
                           CopiesIn(row, OldRows) # CopiesIn(row, NewRows)}

----------------------------------------------------------------------------
(* C6 *)

\* C6: for every changed row whose group name is a union name, all raw
\* labels of the union are affected groups, and a subscribed student of any
\* of these raw groups is notified.
C6_UnionLabelsAffected ==
    (call.mode = "change" /\ call.compared) =>
        \A row \in call.changes :
            row.Topar \in GroupUnionKeys =>
                /\ Range(GROUP_UNIONS[row.Topar]) \subseteq call.affected_groups
                /\ \A uid \in DOMAIN users :
                      (/\ users[uid].notifications
                       /\ users[uid].role = Student
                       /\ users[uid].group \in GroupUnionKeys
                       /\ Range(GROUP_UNIONS[users[uid].group])
                              \cap Range(GROUP_UNIONS[row.Topar]) # {})
                          => uid \in SentTo

----------------------------------------------------------------------------
(* C9 *)

Last(seq) == seq[Len(seq)]

Matched(uid) ==
    uid \in DOMAIN users /\ (TeacherAffected(uid) \/ StudentAffected(uid))

\* C9 as stated: in change mode the privileged uploader is always notified,
\* and last when the matching rule does not target them.
C9_UploaderAlwaysNotified ==
    (call.mode = "change" /\ call.uploader_id \in ALLOWED_USERS) =>
        /\ call.uploader_id \in SentTo
        /\ ~Matched(call.uploader_id) => Last(sent).to = call.uploader_id

\* C9 amended: in change mode, when both snapshots are non-empty and the
\* diff is non-empty, the privileged uploader is notified, and last when
\* the matching rule does not target them; when a snapshot is empty or the
\* diff is empty nobody is notified, the uploader included.
C9_UploaderNotifiedWhenDiff ==
    (call.mode = "change" /\ call.uploader_id \in ALLOWED_USERS) =>
        IF call.compared /\ call.changes # {}
        THEN /\ call.uploader_id \in SentTo
             /\ ~Matched(call.uploader_id) => Last(sent).to = call.uploader_id
        ELSE sent = << >>

\* the uploader, whom no changed row concerns, is notified after a matched
\* user
C9_Witness ==
    /\ call.mode = "change" /\ call.compared /\ call.changes # {}
    /\ ~Matched(call.uploader_id)
    /\ Len(sent) >= 2
    /\ Last(sent).to = call.uploader_id
    /\ Matched(sent[1].to)

----------------------------------------------------------------------------
(* C10 *)

\* C10: when the changes snapshot equals the original snapshot, duplicates
\* included, both affected sets are empty and nobody is notified.
C10_SelfDiffEmpty ==
    (call.mode = "change" /\ original_schedule = changes_schedule) =>
        /\ call.changes = {}
        /\ call.affected_teachers = {}
        /\ call.affected_groups = {}
        /\ sent = << >>

\* a snapshot with a duplicated row of a subscribed teacher, diffed against
\* itself
C10_Witness ==
    /\ call.mode = "change" /\ call.compared
    /\ original_schedule = changes_schedule
    /\ \E row \in BagToSet(original_schedule) : CopiesIn(row, original_schedule) = 2
    /\ \E uid \in DOMAIN users :
          /\ users[uid].notifications
          /\ \E row \in BagToSet(OldRows) : Concerns(row, users[uid])
    /\ sent = << >>

----------------------------------------------------------------------------
(* C11 *)

\* C11: in every reachable state, a user's teacher_name is set only if the
\* role is Teacher and the group is set only if the role is Student.
C11_IdentityMatchesRole ==
    \A uid \in DOMAIN users :
        /\ users[uid].teacher_name # NoText => users[uid].role = Teacher
        /\ users[uid].group # NoText => users[uid].role = Student

----------------------------------------------------------------------------
(* C19 *)

\* C19: in every reachable state, every user whose group is set has a group
\* that is a key of GROUP_UNIONS (a student's text that is not a key is not
\* stored).
C19_GroupIsKey ==
    \A uid \in DOMAIN users :
        users[uid].group # NoText => users[uid].group \in GroupUnionKeys

\* a student has registered a group, and another student who has typed
\* since the schedule was uploaded still has none
C19_Witness ==
    /\ ~(Empty(original_schedule) /\ Empty(changes_schedule))
    /\ \E a, b \in DOMAIN users :
          /\ users[a].role = Student /\ users[a].group # NoText
          /\ users[b].role = Student /\ users[b].group = NoText

----------------------------------------------------------------------------
(* C20 *)

\* C20: a user id that joins the directory does so with notifications on,
\* and no step removes a user id from the directory.
C20_ProfilesNeverDeleted ==
    [][/\ DOMAIN users \subseteq DOMAIN users'
       /\ \A uid \in DOMAIN users' \ DOMAIN users :
              users'[uid].notifications]_vars

\* both snapshots are empty again after a teacher registered a name, which
\* takes a stored schedule: the schedule was deleted and the user is there
C20_Witness ==
    /\ Empty(original_schedule) /\ Empty(changes_schedule)
    /\ \E uid \in DOMAIN users : users[uid].teacher_name # NoText

----------------------------------------------------------------------------
(* C12 *)

\* C12: an admin's upload of a working timetable from which no record was
\* extracted is not accepted (process_working_schedule returns False): both
\* snapshots keep their contents and no notification is sent.
C12_EmptyWorkingUploadRejected ==
    [][(/\ IsWorkingName(upload'.file_name)
        /\ upload'.user_id \in ALLOWED_USERS
        /\ Empty(upload'.df))
          => /\ ~WorkingScheduleOk(upload'.df)
             /\ ~upload'.accepted
             /\ original_schedule' = original_schedule
             /\ changes_schedule' = changes_schedule
             /\ sent' = << >>
             /\ call'.mode = "none"]_vars

\* a working timetable with no record was uploaded by an admin while a
\* subscribed teacher was registered and the snapshot it names had rows
C12_Witness ==
    /\ IsWorkingName(upload.file_name)
    /\ upload.user_id \in ALLOWED_USERS
    /\ Empty(upload.df)
    /\ ~Empty(upload.replaced)
    /\ \E uid \in DOMAIN users \ {upload.user_id} : users[uid].notifications
    /\ sent = << >>

----------------------------------------------------------------------------
(* C13 *)

\* the names of the documents that carry an original schedule
OriginalNames == {"keste_bot_orig.xlsx", "Sabaq keste_DELL.xlsx"}

\* C13: after an accepted upload the snapshot it names holds exactly the
\* uploaded rows, and the other snapshot and the user directory are as they
\* were before.
C13_SnapshotReplacedWholesale ==
    [][upload'.accepted =>
          /\ IF upload'.file_name \in OriginalNames
             THEN /\ original_schedule' = upload'.df
                  /\ changes_schedule' = changes_schedule
             ELSE /\ changes_schedule' = upload'.df
                  /\ original_schedule' = original_schedule
          /\ users' = users
          /\ subscribed_users' = subscribed_users
          /\ db_users' = db_users]_vars

\* an accepted upload replaced a snapshot that held another row, and no row
\* of the earlier snapshot is left
C13_Witness ==
    /\ upload.accepted
    /\ ~Empty(upload.replaced)
    /\ ~Empty(upload.df)
    /\ BagToSet(upload.replaced) \cap BagToSet(upload.df) = {}
    /\ (IF upload.file_name \in OriginalNames THEN original_schedule
                                                ELSE changes_schedule) = upload.df
    /\ DOMAIN users # {}

----------------------------------------------------------------------------
(* C14 *)

Resolved == union_name # << >>

\* the labels of a in nondecreasing order of sorted(), each as often as in a
IsSortedCopy(b, a) ==
    /\ Len(b) = Len(a)
    /\ \A l \in Range(a) \cup Range(b) :
          Cardinality({i \in DOMAIN a : a[i] = l})
              = Cardinality({i \in DOMAIN b : b[i] = l})
    /\ \A i, j \in DOMAIN b : i < j => Rank(b[i]) <= Rank(b[j])

\* C14: for every non-empty list, when the set of its labels is the label
\* set of some GROUP_UNIONS entry the result is a name of the table whose
\* entry is exactly that set; otherwise the result is the labels sorted
\* lexicographically and joined with '-'.
C14_AgreesWithReferenceResolver ==
    (Resolved /\ group_list # << >>) =>
        IF \E k \in GroupUnionKeys : Range(GROUP_UNIONS[k]) = Range(group_list)
        THEN /\ union_name \in GroupUnionKeys
             /\ Range(GROUP_UNIONS[union_name]) = Range(group_list)
        ELSE IsSortedCopy(union_name, group_list)

\* the labels 999, 101 (no entry) resolved to 101-999
C14_Witness ==
    /\ Resolved
    /\ group_list = <<"999", "101">>
    /\ union_name = <<"101", "999">>

----------------------------------------------------------------------------
(* C15 *)

Rearrangements(seq) ==
    {[i \in DOMAIN seq |-> seq[p[i]]] : p \in Orders(DOMAIN seq)}

\* C15: every list that is a permutation of the list resolved gets the same
\* name, whether an entry of the table matches or not.
C15_OrderIndependent ==
    Resolved =>
        \A other \in Rearrangements(group_list) :
            get_union_name(other, GROUP_UNIONS) = union_name

\* a list of three different labels that is not in sorted order and matches
\* no entry
C15_Witness ==
    /\ Resolved
    /\ Len(group_list) = 3
    /\ Cardinality(Range(group_list)) = 3
    /\ union_name \notin GroupUnionKeys
    /\ union_name # group_list

----------------------------------------------------------------------------
(* C16 *)

\* C16: the table get_union_name has consulted holds no two distinct names
\* that map to the same set of raw labels.
C16_OneNamePerLabelSet ==
    Resolved =>
        \A a, b \in GroupUnionKeys :
            Range(GROUP_UNIONS[a]) = Range(GROUP_UNIONS[b]) => a = b

----------------------------------------------------------------------------
(* C17 *)

\* C17: every record the extractor emits has its six fields present and
\* non-empty: a blank slot, subject or room cell, and a block with no
\* labelled group column, give "JOQ", never an empty str or None.
C17_NoEmptyField ==
    \A i \in DOMAIN schedule_data.rows :
        LET record == schedule_data.rows[i]
        IN /\ record.Kun # ""
           /\ record.Oqitiwshi # ""
           /\ Truthy(record.Jupliq)
           /\ Truthy(record.Pan)
           /\ Truthy(record.Kabinet)
           /\ record.Topar # EmptyStr

----------------------------------------------------------------------------
(* C18 *)

\* the records of a teacher made from a merged range in a slot row
RecordsOf(teacher_name, range, row) ==
    {i \in DOMAIN schedule_data.rows :
        /\ schedule_data.rows[i].Oqitiwshi = teacher_name
        /\ schedule_data.at[i].row = row
        /\ InRange(range, schedule_data.at[i].row + 1, schedule_data.at[i].col)}

\* C18: for a teacher and a slot row, each merged range of the sheet gives
\* at most one record, and over all slot rows too: a range that spans
\* several group columns or several rows is not counted once per column or
\* row.
C18_OneRecordPerBlock ==
    schedule_data.done =>
        \A t \in DOMAIN TEACHER_NAMES, range \in ws.merged :
            /\ \A row \in DAY_RANGES[1][1]..DAY_RANGES[1][2] :
                   Cardinality(RecordsOf(TEACHER_NAMES[t], range, row)) <= 1
            /\ Cardinality(UNION {RecordsOf(TEACHER_NAMES[t], range, row) :
                                     row \in DAY_RANGES[1][1]..DAY_RANGES[1][2]}) <= 1

\* a range over both group columns and both teaching rows, with the
\* teacher's name, gave one record
C18_Witness ==
    /\ schedule_data.done
    /\ \E range \in ws.merged :
          /\ range.max_col > range.min_col /\ range.max_row > range.min_row
          /\ {c \in Range(GROUP_COLUMNS_FIRST_COURSE) :
                 range.min_col <= c /\ c <= range.max_col} = {4, 6}
          /\ Cardinality(UNION {RecordsOf("Ta A", range, row) : row \in 5..6}) = 1

----------------------------------------------------------------------------
(* C21 *)

\* C21: a user whose notifications flag is off (they issued /notify_off
\* and no /notify_on since) and who is not the uploader is sent no
\* new-schedule notification by an original upload, whatever they issued
\* in between.
C21_NotifyOffStaysOff ==
    call.mode = "original" =>
        \A uid \in DOMAIN users \ {call.uploader_id} :
            ~users[uid].notifications => uid \notin SentTo

----------------------------------------------------------------------------
(* C27 *)

\* the group columns of the course that a pass belongs to
CohortOf(col) == IF \E i \in DOMAIN GROUP_COLUMNS_FIRST_COURSE :
                       GROUP_COLUMNS_FIRST_COURSE[i] = col
                 THEN GROUP_COLUMNS_FIRST_COURSE
                 ELSE GROUP_COLUMNS_SECOND_COURSE

\* the merged range a record was made from
BlockOf(i) == CHOOSE range \in ws.merged :
                  InRange(range, schedule_data.at[i].row + 1, schedule_data.at[i].col)

\* the labels, from the label row, of the group columns of the course
\* inside the column span of a range, from left to right
SpanLabels(range, cohort) ==
    LET inside == SelectSeq(cohort, LAMBDA col :
                      /\ range.min_col <= col /\ col <= range.max_col
                      /\ <<LabelRow, col>> \in DOMAIN ws.cells
                      /\ Truthy(ws.cells[<<LabelRow, col>>]))
    IN [k \in DOMAIN inside |-> ws.cells[<<LabelRow, inside[k]>>].s]

\* C27: the group of every record is get_union_name of the labels of
\* exactly the group columns of its course that lie inside the column span
\* of the merged block it was made from.
C27_GroupFromSpannedColumns ==
    \A i \in DOMAIN schedule_data.rows :
        schedule_data.rows[i].Topar
            = get_union_name(SpanLabels(BlockOf(i), CohortOf(schedule_data.at[i].col)),
                             GROUP_UNIONS)

\* a record made from a block over both labelled group columns of the first
\* course carries the name of the union 101-102
C27_Witness ==
    \E i \in DOMAIN schedule_data.rows :
        /\ BlockOf(i).min_col = 4 /\ BlockOf(i).max_col = 6
        /\ SpanLabels(BlockOf(i), GROUP_COLUMNS_FIRST_COURSE) = <<"101", "102">>
        /\ schedule_data.rows[i].Topar = <<"101", "102">>

----------------------------------------------------------------------------
(* C28 *)

\* the room the claim describes for a block that ends in column last_col,
\* read on the slot row
RoomByRule(row, last_col, cohort) ==
    LET next == CellValue(ws, row, last_col + 1)
        found == {col \in Range(cohort) :
                     col > last_col /\ Truthy(CellValue(ws, row, col + 1))}
    IN IF Truthy(next) THEN next
       ELSE IF found # {}
            THEN CellValue(ws, row, (CHOOSE col \in found :
                                        \A other \in found : col <= other) + 1)
            ELSE Str("JOQ")

\* C28: the room of every record is the value right of the last column of
\* its block on the slot row when that is not blank, else the first value
\* that is not blank in the cells right of the group columns of the course
\* to the right of the block, from left to right, else "JOQ".
C28_RoomRule ==
    \A i \in DOMAIN schedule_data.rows :
        schedule_data.rows[i].Kabinet
            = RoomByRule(schedule_data.at[i].row, BlockOf(i).max_col,
                         CohortOf(schedule_data.at[i].col))

\* a record whose block has a blank cell to its right and whose room was
\* found by the scan, right of a later group column
C28_Witness ==
    \E i \in DOMAIN schedule_data.rows :
        LET row == schedule_data.at[i].row
            last_col == BlockOf(i).max_col
        IN /\ ~Truthy(CellValue(ws, row, last_col + 1))
           /\ \E col \in Range(CohortOf(schedule_data.at[i].col)) :
                 col > last_col /\ Truthy(CellValue(ws, row, col + 1))
           /\ schedule_data.rows[i].Kabinet = Str("305")


----------------------------------------------------------------------------
(* C30 *)

\* the text in lower case without blanks and full stops
Normalized(text) == Lower(SelectSeq(text, LAMBDA c : c \notin {" ", "."}))

\* the text in lower case without blanks and punctuation marks
NormalizedAll(text) == Lower(SelectSeq(text, LAMBDA c : c \notin {" ", ".", ","}))

\* the text with one blank or full stop put in, or one taken out, or the case
\* of one letter changed, whenever a text is left
Respelled(text) ==
    {SubSeq(text, 1, i) \o <<c>> \o SubSeq(text, i + 1, Len(text)) :
        i \in 0..Len(text), c \in {" ", "."}}
    \cup {SubSeq(text, 1, i - 1) \o SubSeq(text, i + 1, Len(text)) :
            i \in {j \in DOMAIN text : text[j] \in {" ", "."} /\ Len(text) > 1}}
    \cup {[text EXCEPT ![i] = IF @ = "a" THEN "A" ELSE "a"] :
            i \in {j \in DOMAIN text : text[j] \in {"a", "A"}}}

----------------------------------------------------------------------------
(* C29 *)

\* the rows of a frame that concern the profile, both text columns stripped
RowsFor(user_data, df) ==
    LET stripped == BagOfAll(StripColumns, df)
    IN [row \in {r \in BagToSet(stripped) : Concerns(r, user_data)} |-> stripped[row]]

\* C29: a user who asks for the week is shown the rows of the changes
\* snapshot whenever that snapshot is not empty, and the rows of the original
\* snapshot otherwise, whichever of the two was uploaded last; a registered
\* user is told that no schedule is loaded exactly when both are empty
C29_AnsweredFromChangesFirst ==
    reply.user_id \in DOMAIN reply.users =>
        /\ reply.kind = "not loaded" <=>
              Empty(reply.original) /\ Empty(reply.changes)
        /\ reply.text = FullWeekText /\ reply.kind # "not loaded" =>
              reply.rows = RowsFor(reply.users[reply.user_id],
                                   IF Empty(reply.changes) THEN reply.original
                                   ELSE reply.changes)

\* the original schedule was uploaded last, both snapshots hold rows, and the
\* week shown is made of the changes snapshot
C29_Witness ==
    /\ reply.kind = "schedule"
    /\ reply.text = FullWeekText
    /\ upload.accepted /\ upload.file_name = OrigName
    /\ ~Empty(reply.original) /\ ~Empty(reply.changes)
    /\ BagOfAll(StripColumns, reply.original) # BagOfAll(StripColumns, reply.changes)
    /\ reply.rows = RowsFor(reply.users[reply.user_id], reply.changes)
    /\ reply.rows # RowsFor(reply.users[reply.user_id], reply.original)

----------------------------------------------------------------------------
(* C25 *)

\* C25: when the admin is told that the schedule was not deleted, both
\* snapshots, original_file and last_file are what they were; when the admin
\* is told that it was deleted, both snapshots are empty and the directory
\* is what it was
C25_DeletionAllOrNothing ==
    /\ reply.kind = "not deleted" =>
          /\ original_schedule = reply.original
          /\ changes_schedule = reply.changes
          /\ original_file = reply.original_file
          /\ last_file = reply.last_file
    /\ reply.kind = "deleted" =>
          /\ Empty(original_schedule) /\ Empty(changes_schedule)
          /\ users = reply.users


----------------------------------------------------------------------------
(* C26 *)

\* the document is turned down because of its sender, of its name, or of the
\* columns check_excel_file misses
TurnedDown(doc) ==
    \/ doc.user_id \notin ALLOWED_USERS
    \/ doc.file_name \notin {OrigName, ChangesName, WorkingName, WorkingChangesName}
    \/ doc.file_name \in {OrigName, ChangesName} /\ ~doc.valid

\* C26: an upload that is turned down leaves both snapshots, the directory,
\* the subscriptions, original_file and last_file as they were, and nobody
\* is notified
C26_RejectedUploadChangesNothing ==
    [][TurnedDown(upload') =>
          /\ UNCHANGED <<original_schedule, changes_schedule, users,
                         subscribed_users, db_users, original_file, last_file>>
          /\ sent' = << >>]_vars


----------------------------------------------------------------------------
(* C22 *)

Delivered == Range(job.delivered)

\* C22: a pass in which every send_message returned has delivered the
\* notification to every user who was a target when it began, whatever
\* /start, /notify_on and /notify_off did at its awaits
C22_PassNeverCutShort ==
    job.pc = "done" /\ job.ended # "send failed" => job.targets \subseteq Delivered

----------------------------------------------------------------------------
(* C24 *)

\* C24: in a pass no other handler interleaved with, a send_message that
\* raises keeps the notification from nobody else: every other target, the
\* admin uploader included, is notified
C24_FailedSendSparesTheOthers ==
    job.pc = "done" /\ ~job.interleaved =>
        \E failed \in SUBSET job.targets :
            /\ Cardinality(failed) <= 1
            /\ job.targets \ failed \subseteq Delivered


----------------------------------------------------------------------------
(* C23 *)

\* C23: the notification pass of a changes upload compares the frame that
\* this upload stored with the original schedule as it was when the upload
\* stored it, also when another document is handled at the same time
C23_PassDiffsOwnSnapshot ==
    \A k \in Slots :
        uploads[k].pc = "done" /\ ~IsOriginalName(uploads[k].file_name) =>
            /\ uploads[k].new_df = BagOfAll(StripColumns, uploads[k].df)
            /\ uploads[k].old_df = BagOfAll(StripColumns, uploads[k].original)

====
